---- MODULE Spec2Model ----
(***************************************************************************)
(* Model of src/src/day23.rs (Advent of Code 2021, day 23): the burrow     *)
(* grid, its parser, the breadth-first reachability, the indexed priority  *)
(* queue and the search loop of part_a, as called from main.               *)
(*                                                                         *)
(* Coordinates are the source's: x is the column and y the row, both       *)
(* counted from 0.  A Burrow is the source's Vec<Vec<Cell>>: a sequence of *)
(* rows, each a sequence of cells, so cell (x, y) is cells[y + 1][x + 1].  *)
(* Option: Some(v) is the record [some |-> v] and None the record          *)
(* [none |-> TRUE]; an Option<Cell> is the cell itself or NoCell.          *)
(***************************************************************************)
EXTENDS Integers, Sequences, FiniteSets, TLC

VARIABLES
    input,       \* the text main read from the file: a sequence of characters
    pc,          \* "main", "idle", "search", "done", "panicked", "paths"
    queue,       \* part_a's queue: a PriorityQueue [heap, values, next_index]
    visited,     \* part_a's visited: a set of Burrows
    node,        \* part_a's loop variables (burrow, energy): the node popped last
    result,      \* what part_a returned: None or Some(energy); Running before that
    exit,        \* what main returned: Ok((energy, None)) or Err(message); None before that
    stdout,      \* number of println! calls made by part_a
    popped,      \* history: the nodes popped so far in this call, in order
    generated,   \* history: the children generated by the last expansion
    pushed,      \* history: index -> the entry pushed under it and its parent's index (-1: none)
    path,        \* a chain of generated moves from the initial arrangement
    runs,        \* number of part_a calls started
    earlier,     \* history: (initial arrangement, result) of the completed calls, in order
    bfs          \* a call of find_reachable_cells: its arguments, locals and history

vars == <<input, pc, queue, visited, node, result, exit, stdout,
          popped, generated, pushed, path, runs, earlier, bfs>>

None == [none |-> TRUE]
Some(v) == [some |-> v]
NoCell == "None"
Running == [running |-> TRUE]

----------------------------------------------------------------------------
(* Cells and characters                                                    *)

Amphipod == {"Amber", "Bronze", "Copper", "Desert"}
Cell == Amphipod \cup {"Wall", "Space", "Empty"}

\* anyhow::Result: Ok(v) or Err(message)
Ok(v) == [ok |-> v]
Err(msg) == [err |-> msg]
IsErr(r) == "err" \in DOMAIN r

\* from_char that takes any other character for an Amber
Amphipod_from_char_lenient(c) ==
    CASE c = "A" -> Ok("Amber")
      [] c = "B" -> Ok("Bronze")
      [] c = "C" -> Ok("Copper")
      [] c = "D" -> Ok("Desert")
      [] OTHER -> Ok("Amber")

\* Amphipod::from_char
Amphipod_from_char(c) ==
    CASE c = "A" -> Ok("Amber")
      [] c = "B" -> Ok("Bronze")
      [] c = "C" -> Ok("Copper")
      [] c = "D" -> Ok("Desert")
      [] OTHER -> Err("Invalid amphipod")

\* the energies with the match arms one type off
energy_shifted(a) ==
    CASE a = "Amber" -> 10
      [] a = "Bronze" -> 100
      [] a = "Copper" -> 1000
      [] a = "Desert" -> 1

\* Amphipod::energy
energy(a) ==
    CASE a = "Amber" -> 1
      [] a = "Bronze" -> 10
      [] a = "Copper" -> 100
      [] a = "Desert" -> 1000

\* Cell::from_char
Cell_from_char(c) ==
    CASE c = "#" -> Ok("Wall")
      [] c = "." -> Ok("Empty")
      [] c = " " -> Ok("Space")
      [] OTHER -> Amphipod_from_char(c)

\* is_empty that also takes a cell holding an Amber for empty
is_empty_or_amber(c) == c \in {"Empty", "Amber"}

\* Cell::is_empty
is_empty(c) == c = "Empty"

----------------------------------------------------------------------------
(* Burrow: parsing and accessors                                           *)

\* F of the value of v: v is evaluated once, as a let binding is
Let(v, F(_)) == CHOOSE r \in {F(x) : x \in {v}} : TRUE

\* a line without the "\r" of its "\r\n" ending
StripCr(line) ==
    IF line # <<>> /\ line[Len(line)] = "\r" THEN SubSeq(line, 1, Len(line) - 1) ELSE line

\* str::lines as from_str uses it: the text is cut at every "\n", a "\r" right
\* before it goes with it, and a final piece that is empty yields no line.
\* (A text whose last character is a "\r" is not among the inputs.)
Newlines(text) == {i \in 1..Len(text) : text[i] = "\n"}

Lines(text) ==
    Let(Newlines(text), LAMBDA nl :
        LET n == Cardinality(nl)
            Kth(k) == CHOOSE p \in nl : Cardinality({q \in nl : q < p}) = k - 1
            StartOf(k) == IF k = 1 THEN 1 ELSE Kth(k - 1) + 1
            rest == SubSeq(text, StartOf(n + 1), Len(text))
        IN  [k \in 1..n |-> StripCr(SubSeq(text, StartOf(k), Kth(k) - 1))]
                \o (IF rest = <<>> THEN <<>> ELSE <<rest>>))

\* collect::<Result<Vec<_>>>: the first Err of the sequence, or Ok of the values
Collect(rs) ==
    Let(rs, LAMBDA v :
        IF \E i \in 1..Len(v) : IsErr(v[i])
        THEN v[CHOOSE i \in 1..Len(v) : IsErr(v[i]) /\ \A j \in 1..(i - 1) : ~IsErr(v[j])]
        ELSE Ok([i \in 1..Len(v) |-> v[i].ok]))

\* Burrow::from_str
from_str(text) ==
    Let(Lines(text), LAMBDA ls :
        Collect([j \in 1..Len(ls) |->
                    Collect([i \in 1..Len(ls[j]) |-> Cell_from_char(ls[j][i])])]))

\* the target text with A and B exchanged in the fourth line
target_str_mixed ==
    <<"#","#","#","#","#","#","#","#","#","#","#","#","#","\n">> \o
    <<"#",".",".",".",".",".",".",".",".",".",".",".","#","\n">> \o
    <<"#","#","#","A","#","B","#","C","#","D","#","#","#","\n">> \o
    <<" "," ","#","B","#","A","#","C","#","D","#","\n">> \o
    <<" "," ","#","#","#","#","#","#","#","#","#","\n">>

\* the five push_str lines of Burrow::target
target_str ==
    <<"#","#","#","#","#","#","#","#","#","#","#","#","#","\n">> \o
    <<"#",".",".",".",".",".",".",".",".",".",".",".","#","\n">> \o
    <<"#","#","#","A","#","B","#","C","#","D","#","#","#","\n">> \o
    <<" "," ","#","A","#","B","#","C","#","D","#","\n">> \o
    <<" "," ","#","#","#","#","#","#","#","#","#","\n">>

\* a target built from the text with A and B exchanged in the fourth line
target_mixed == from_str(target_str_mixed).ok

\* Burrow::target (from_str(..).unwrap())
target == from_str(target_str).ok

InBounds(b, x, y) == y < Len(b) /\ x < Len(b[y + 1])

\* get that answers Wall for a cell outside the grid
get_or_wall(b, x, y) == IF InBounds(b, x, y) THEN b[y + 1][x + 1] ELSE "Wall"

\* Burrow::get
get(b, x, y) == IF InBounds(b, x, y) THEN b[y + 1][x + 1] ELSE NoCell

\* a panic of the running thread (an index out of bounds, an unwrap of None),
\* where a Burrow and where a queue item is expected
Panic == <<<<"panic">>>>
Panicked == [panic |-> TRUE]

\* Burrow::set: self.cells[y][x] = cell panics out of bounds
set(b, x, y, cell) ==
    IF InBounds(b, x, y) THEN [b EXCEPT ![y + 1][x + 1] = cell] ELSE Panic

\* take that returns the value and leaves it in the cell
take_copy(b, x, y) ==
    IF InBounds(b, x, y)
    THEN [value |-> b[y + 1][x + 1], cells |-> b]
    ELSE [value |-> NoCell, cells |-> b]

\* Burrow::take: the value returned, and the grid it leaves
take(b, x, y) ==
    IF InBounds(b, x, y)
    THEN [value |-> b[y + 1][x + 1], cells |-> [b EXCEPT ![y + 1][x + 1] = "Empty"]]
    ELSE [value |-> NoCell, cells |-> b]

Range(s) == {s[i] : i \in DOMAIN s}

RECURSIVE Flatten(_)
Flatten(ss) ==
    Let(ss, LAMBDA v : IF v = <<>> THEN <<>> ELSE Head(v) \o Flatten(Tail(v)))

\* find_amphipods with the columns in the outer loop
find_amphipods_by_column(b) ==
    LET width == IF b = <<>> THEN 0
                 ELSE CHOOSE w \in {Len(b[j]) : j \in 1..Len(b)} :
                          \A j \in 1..Len(b) : Len(b[j]) <= w
        hit(x, y) == IF InBounds(b, x, y) /\ b[y + 1][x + 1] \in Amphipod
                     THEN <<<<x, y, b[y + 1][x + 1]>>>> ELSE <<>>
        inColumn(x) == Flatten([j \in 1..Len(b) |-> hit(x, j - 1)])
    IN  Flatten([i \in 1..width |-> inColumn(i - 1)])

\* Burrow::find_amphipods: (x, y, amphipod) in row-major order
find_amphipods(b) ==
    LET inRow(y) ==
            LET row == b[y + 1]
                hit(x) == IF row[x + 1] \in Amphipod THEN <<<<x, y, row[x + 1]>>>> ELSE <<>>
            IN  Flatten([i \in 1..Len(row) |-> hit(i - 1)])
    IN  Flatten([j \in 1..Len(b) |-> inRow(j - 1)])

\* is_room with the two rows below, the rooms of a 4-deep grid
is_room_deep(x, y) == x \in {3, 5, 7, 9} /\ y \in 2..5

\* Burrow::is_room
is_room(x, y) ==
    <<x, y>> \in {<<3, 2>>, <<3, 3>>, <<5, 2>>, <<5, 3>>, <<7, 2>>, <<7, 3>>, <<9, 2>>, <<9, 3>>}

\* is_hallway with the four cells above the rooms among the stops
is_hallway_all(x, y) == y = 1 /\ x \in 1..11

\* Burrow::is_hallway
is_hallway(x, y) ==
    <<x, y>> \in {<<1, 1>>, <<2, 1>>, <<4, 1>>, <<6, 1>>, <<8, 1>>, <<10, 1>>, <<11, 1>>}

\* one neighbour of the BFS: Some cell when it is in bounds and Empty
EmptyAt(b, x, y) == is_empty(get(b, x, y))

\* the turn without the test of visited: every Empty neighbour is pushed
Found_unseen(b, x, y, steps, seen) ==
    LET up == IF y >= 1 /\ EmptyAt(b, x, y - 1) THEN <<<<x, y - 1>>>> ELSE <<>>
        right == IF EmptyAt(b, x + 1, y) THEN <<<<x + 1, y>>>> ELSE <<>>
        down == IF EmptyAt(b, x, y + 1) THEN <<<<x, y + 1>>>> ELSE <<>>
        left == IF x >= 1 /\ EmptyAt(b, x - 1, y) THEN <<<<x - 1, y>>>> ELSE <<>>
    IN  Let(up \o right \o down \o left,
            LAMBDA fresh : [i \in 1..Len(fresh) |-> <<fresh[i][1], fresh[i][2], steps + 1>>])

\* the cells pushed by one turn of the while loop for the item (x, y, steps)
Found(b, x, y, steps, seen) ==
    LET up == IF y >= 1 /\ EmptyAt(b, x, y - 1) THEN <<<<x, y - 1>>>> ELSE <<>>
        right == IF EmptyAt(b, x + 1, y) THEN <<<<x + 1, y>>>> ELSE <<>>
        down == IF EmptyAt(b, x, y + 1) THEN <<<<x, y + 1>>>> ELSE <<>>
        left == IF x >= 1 /\ EmptyAt(b, x - 1, y) THEN <<<<x - 1, y>>>> ELSE <<>>
    IN  Let(SelectSeq(up \o right \o down \o left, LAMBDA c : c \notin seen),
            LAMBDA fresh : [i \in 1..Len(fresh) |-> <<fresh[i][1], fresh[i][2], steps + 1>>])

\* the while loop of find_reachable_cells (work is its VecDeque, seen its visited)
RECURSIVE ReachLoop(_, _, _, _)
ReachLoop(b, work, seen, reachable_cells) ==
    IF work = <<>> THEN reachable_cells
    ELSE Let(Found(b, Head(work)[1], Head(work)[2], Head(work)[3], seen),
             LAMBDA found :
                Let([work |-> Tail(work) \o found,
                     seen |-> seen \cup {<<found[i][1], found[i][2]>> : i \in 1..Len(found)},
                     reachable_cells |-> reachable_cells \o found],
                    LAMBDA s : ReachLoop(b, s.work, s.seen, s.reachable_cells)))

\* Burrow::find_reachable_cells: (nx, ny, steps) in the order found
find_reachable_cells(b, x, y) == ReachLoop(b, <<<<x, y, 0>>>>, {<<x, y>>}, <<>>)

----------------------------------------------------------------------------
(* PriorityQueue<Reverse<usize>, Burrow>                                   *)
(* heap holds the pairs (Reverse(energy), Reverse(index)); a pair is       *)
(* written <<energy, index>> here and BinaryHeap's maximum is the pair     *)
(* with the least energy and, among those, the least index.                *)

\* PriorityQueue::new
PQ_new == [heap |-> {}, values |-> <<>>, next_index |-> 0]

\* push that stores the payload under the index after the one it puts on the heap
PQ_push_late(q, v, p) ==
    [heap |-> q.heap \cup {<<p, q.next_index>>},
     values |-> [k \in DOMAIN q.values \cup {q.next_index + 1} |->
                    IF k = q.next_index + 1 THEN v ELSE q.values[k]],
     next_index |-> q.next_index + 1]

\* PriorityQueue::push
PQ_push(q, v, p) ==
    [heap |-> q.heap \cup {<<p, q.next_index>>},
     values |-> [k \in DOMAIN q.values \cup {q.next_index} |->
                    IF k = q.next_index THEN v ELSE q.values[k]],
     next_index |-> q.next_index + 1]

\* the pair with the greatest energy: the heap's order without Reverse on the energy
HeapTopGreatest(h) ==
    Let(CHOOSE p \in {e[1] : e \in h} : \A p2 \in {e[1] : e \in h} : p >= p2, LAMBDA most :
        LET ties == {e[2] : e \in {f \in h : f[1] = most}}
        IN  <<most, CHOOSE k \in ties : \A k2 \in ties : k <= k2>>)

\* among the pairs of least energy the one pushed last: the index without Reverse
HeapTopLatest(h) ==
    Let(CHOOSE p \in {e[1] : e \in h} : \A p2 \in {e[1] : e \in h} : p <= p2, LAMBDA least :
        LET ties == {e[2] : e \in {f \in h : f[1] = least}}
        IN  <<least, CHOOSE k \in ties : \A k2 \in ties : k >= k2>>)

\* BinaryHeap::peek on (Reverse(energy), Reverse(index)): the greatest pair
HeapTop(h) ==
    Let(CHOOSE p \in {e[1] : e \in h} : \A p2 \in {e[1] : e \in h} : p <= p2, LAMBDA least :
        LET ties == {e[2] : e \in {f \in h : f[1] = least}}
        IN  <<least, CHOOSE k \in ties : \A k2 \in ties : k <= k2>>)

\* pop that clones the payload and leaves it in the table
PQ_pop_keep(q) ==
    IF q.heap = {} THEN [queue |-> q, item |-> None]
    ELSE Let(HeapTop(q.heap), LAMBDA top :
             IF top[2] \notin DOMAIN q.values THEN [queue |-> q, item |-> Panicked]
             ELSE [queue |-> [heap |-> q.heap \ {top}, values |-> q.values,
                              next_index |-> q.next_index],
                   item |-> [burrow |-> q.values[top[2]], energy |-> top[1],
                             index |-> top[2]]])

\* PriorityQueue::pop: the queue left and the item (value, energy, index) popped;
\* values.remove(&k).unwrap() panics when the index has no payload
PQ_pop(q) ==
    IF q.heap = {} THEN [queue |-> q, item |-> None]
    ELSE Let(HeapTop(q.heap), LAMBDA top :
             IF top[2] \notin DOMAIN q.values THEN [queue |-> q, item |-> Panicked]
             ELSE [queue |-> [heap |-> q.heap \ {top},
                              values |-> [k \in DOMAIN q.values \ {top[2]} |-> q.values[k]],
                              next_index |-> q.next_index],
                   item |-> [burrow |-> q.values[top[2]], energy |-> top[1],
                             index |-> top[2]]])

----------------------------------------------------------------------------
(* part_a: the expansion of one dequeued node                              *)

\* the match on the amphipod: (outer_target, inner_target)
targets(a) ==
    CASE a = "Amber" -> <<<<3, 2>>, <<3, 3>>>>
      [] a = "Bronze" -> <<<<5, 2>>, <<5, 3>>>>
      [] a = "Copper" -> <<<<7, 2>>, <<7, 3>>>>
      [] a = "Desert" -> <<<<9, 2>>, <<9, 3>>>>

outer_target(a) == targets(a)[1]
inner_target(a) == targets(a)[2]

\* inner_target_done: the inner cell of the amphipod's room holds its type
inner_target_done(b, a) == get(b, inner_target(a)[1], inner_target(a)[2]) = a

\* only the first of the two continue statements
SettledInnerOnly(b, x, y, a) == <<x, y>> = inner_target(a)

\* the two continue statements before the inner loop: the amphipod is left alone
Settled(b, x, y, a) ==
    \/ <<x, y>> = inner_target(a)
    \/ inner_target_done(b, a) /\ <<x, y>> = outer_target(a)

\* a room cell may also take any room cell as its destination
RoomRuleAnyRoom(x, y, nx, ny) == ~(is_room(x, y) /\ ~is_hallway(nx, ny) /\ ~is_room(nx, ny))

\* the first continue of the inner loop, negated: a destination a room cell may take
RoomRule(x, y, nx, ny) == ~(is_room(x, y) /\ ~is_hallway(nx, ny))

\* no restriction on the destinations of a hallway cell
HallwayRuleLoose(b, x, y, a, nx, ny) == TRUE

\* the second continue of the inner loop, negated
HallwayRule(b, x, y, a, nx, ny) ==
    ~(/\ is_hallway(x, y)
      /\ \/ ~inner_target_done(b, a) /\ <<nx, ny>> # inner_target(a)
         \/ inner_target_done(b, a) /\ <<nx, ny>> # outer_target(a))

\* new_burrow: clone, take(x, y).unwrap(), set(nx, ny, cell)
Child(b, x, y, nx, ny) ==
    LET t == take(b, x, y)
    IN  IF t.value = NoCell THEN Panic ELSE set(t.cells, nx, ny, t.value)

\* the moves generated for one amphipod, in the order generated
MovesOf(b, x, y, a) ==
    IF Settled(b, x, y, a) THEN <<>>
    ELSE Let(SelectSeq(find_reachable_cells(b, x, y),
                       LAMBDA c : /\ RoomRule(x, y, c[1], c[2])
                                  /\ HallwayRule(b, x, y, a, c[1], c[2])),
             LAMBDA kept :
                [i \in 1..Len(kept) |->
                    [x |-> x, y |-> y, amphipod |-> a,
                     nx |-> kept[i][1], ny |-> kept[i][2], steps |-> kept[i][3],
                     burrow |-> Child(b, x, y, kept[i][1], kept[i][2])]])

\* every move generated from a burrow, in the order of the two nested loops
Moves(b) ==
    Let(find_amphipods(b), LAMBDA as :
        Flatten([i \in 1..Len(as) |-> MovesOf(b, as[i][1], as[i][2], as[i][3])]))

\* the child's priority without the energy spent so far
ChildEnergyLast(e, steps, a) == steps * energy(a)

\* the priority of a pushed child: energy + steps * amphipod.energy()
ChildEnergy(e, steps, a) == e + steps * energy(a)

\* a check that also skips a child whose arrangement an earlier iteration
\* pushed: visited filled at the push
Skipped_pushed(seen, child) ==
    child \in seen \/ \E k \in DOMAIN pushed : pushed[k].burrow = child

\* the visited.contains check before queue.push
Skipped(seen, child) == child \in seen

\* the queue after the pushes of one expansion
RECURSIVE PushAll(_, _, _, _)
PushAll(q, ms, e, seen) ==
    IF ms = <<>> THEN q
    ELSE Let(IF Skipped(seen, Head(ms).burrow) THEN q
             ELSE PQ_push(q, Head(ms).burrow,
                          ChildEnergy(e, Head(ms).steps, Head(ms).amphipod)),
             LAMBDA next : Let(Tail(ms), LAMBDA rest : PushAll(next, rest, e, seen)))

----------------------------------------------------------------------------
(* part_a: the search loop, one action per iteration                       *)

\* a chain of generated moves: its first node, and the node a generated child
\* becomes; moved counts, for the piece now on each cell, the moves of the
\* chain that moved it
Start(b) ==
    [burrow |-> b, energy |-> 0, moves |-> 0,
     moved |-> [c \in {<<t[1], t[2]>> : t \in Range(find_amphipods(b))} |-> 0]]

Extend(p, m) ==
    [burrow |-> m.burrow, energy |-> ChildEnergy(p.energy, m.steps, m.amphipod),
     moves |-> p.moves + 1,
     moved |-> [c \in (DOMAIN p.moved \ {<<m.x, m.y>>}) \cup {<<m.nx, m.ny>>} |->
                  IF c = <<m.nx, m.ny>> THEN p.moved[<<m.x, m.y>>] + 1 ELSE p.moved[c]]]

\* a visited set kept from one call to the next
StaleVisited == visited

\* let mut visited = HashSet::new()
FreshVisited == {}

\* let mut queue = PriorityQueue::new()
FreshQueue == PQ_new

\* part_a up to its loop: target, queue, visited, the push and the insert
BeginSearch(b) ==
    /\ queue' = PQ_push(FreshQueue, b, 0)
    /\ visited' = FreshVisited \cup {b}
    /\ node' = None
    /\ result' = Running
    /\ stdout' = 0
    /\ popped' = <<>>
    /\ generated' = <<>>
    /\ pushed' = (0 :> [burrow |-> b, energy |-> 0, parent |-> -1])
    /\ path' = None
    /\ runs' = runs + 1
    /\ pc' = "search"

\* the body of the loop after visited.insert: the queue after the pushes, and the
\* children generated, each with the energy it has and whether it was skipped
Expansion(q, item, seen) ==
    Let(Moves(item.burrow), LAMBDA ms :
    Let(PushAll(q, ms, item.energy, seen), LAMBDA after :
        [panic |-> \E i \in 1..Len(ms) : ms[i].burrow = Panic,
         queue |-> after,
         generated |->
            [i \in 1..Len(ms) |->
                [x |-> ms[i].x, y |-> ms[i].y, amphipod |-> ms[i].amphipod,
                 nx |-> ms[i].nx, ny |-> ms[i].ny, steps |-> ms[i].steps,
                 burrow |-> ms[i].burrow,
                 energy |-> ChildEnergy(item.energy, ms[i].steps, ms[i].amphipod),
                 skipped |-> Skipped(seen, ms[i].burrow)]],
         pushed |->
            [k \in q.next_index..(after.next_index - 1) |->
                [burrow |-> after.values[k],
                 energy |-> (CHOOSE e \in after.heap : e[2] = k)[1],
                 parent |-> item.index]]]))

\* main with unwrap_or(0) in place of ok_or_else(..)?
MainExit_zero(r) == IF r = None THEN Ok(<<0, None>>) ELSE Ok(<<r.some, None>>)

\* main's value for part_a's: ok_or_else(..)? and the tuple
MainExit(r) ==
    IF r = None THEN Err("Can't find a solution for part A") ELSE Ok(<<r.some, None>>)

\* part_a returns r and main returns; the call is recorded
Leave(r) ==
    /\ result' = r
    /\ exit' = MainExit(r)
    /\ earlier' = Append(earlier, <<pushed[0].burrow, r>>)
    /\ path' = Start(pushed[0].burrow)
    /\ pc' = "done"

\* queue.pop() is None: the loop ends and part_a returns None
Exhausted ==
    /\ pc = "search"
    /\ PQ_pop(queue).item = None
    /\ Leave(None)
    /\ UNCHANGED <<input, queue, visited, node, stdout, popped, generated, pushed, runs, bfs>>

\* the popped burrow is the target: println, return Some(energy)
Return ==
    /\ pc = "search"
    /\ \E p \in {PQ_pop(queue)} :
          /\ p.item \notin {None, Panicked}
          /\ p.item.burrow = target
          /\ queue' = p.queue
          /\ node' = p.item
          /\ popped' = Append(popped, p.item)
          /\ stdout' = stdout + 1
          /\ generated' = <<>>
          /\ Leave(Some(p.item.energy))
    /\ UNCHANGED <<input, visited, pushed, runs, bfs>>

\* the popped burrow is not the target: println, visited.insert, the two loops;
\* a panic in pop or in the loops ends the thread
Expand ==
    /\ pc = "search"
    /\ \E p \in {PQ_pop(queue)} :
          /\ p.item # None
          /\ IF p.item = Panicked
             THEN /\ pc' = "panicked"
                  /\ UNCHANGED <<queue, visited, node, stdout, popped, generated, pushed>>
             ELSE /\ p.item.burrow # target
                  /\ node' = p.item
                  /\ popped' = Append(popped, p.item)
                  /\ stdout' = stdout + 1
                  /\ visited' = visited \cup {p.item.burrow}
                  /\ \E x \in {Expansion(p.queue, p.item, visited \cup {p.item.burrow})} :
                        /\ queue' = x.queue
                        /\ generated' = x.generated
                        /\ pushed' = x.pushed @@ pushed
                        /\ pc' = IF x.panic THEN "panicked" ELSE "search"
    /\ UNCHANGED <<input, result, exit, path, runs, earlier, bfs>>

\* main: read the text, parse it, call part_a or return the parse error
Main ==
    /\ pc = "main"
    /\ \E r \in {from_str(input)} :
          IF IsErr(r)
          THEN /\ exit' = r
               /\ pc' = "done"
               /\ UNCHANGED <<queue, visited, node, result, stdout, popped, generated,
                              pushed, path, runs>>
          ELSE /\ BeginSearch(r.ok)
               /\ UNCHANGED exit
    /\ UNCHANGED <<input, earlier, bfs>>

----------------------------------------------------------------------------
(* Input texts                                                             *)

Rep(c, n) == [i \in 1..n |-> c]
Top == Rep("#", 13)
HallRow(h) == <<"#">> \o h \o <<"#">>
OuterRow(a, b, c, d) == <<"#", "#", "#", a, "#", b, "#", c, "#", d, "#", "#", "#">>
InnerRow(a, b, c, d) == <<" ", " ", "#", a, "#", b, "#", c, "#", d, "#">>
Bottom == <<" ", " ">> \o Rep("#", 9)
Text(rows) == Flatten([i \in 1..Len(rows) |-> rows[i] \o <<"\n">>])

\* the puzzle's example, 2-deep
Example ==
    Text(<<Top, HallRow(Rep(".", 11)), OuterRow("B", "C", "B", "D"),
           InnerRow("A", "D", "C", "A"), Bottom>>)

\* the puzzle's example unfolded, 4-deep
Unfolded ==
    Text(<<Top, HallRow(Rep(".", 11)), OuterRow("B", "C", "B", "D"),
           InnerRow("D", "C", "B", "A"), InnerRow("D", "B", "A", "C"),
           InnerRow("A", "D", "C", "A"), Bottom>>)

----------------------------------------------------------------------------
(* Chains of generated moves                                               *)

\* the values of the variables before main has parsed anything
\* part_a has not been called
NoSearch ==
    /\ queue = PQ_new
    /\ visited = {}
    /\ node = None
    /\ result = Running
    /\ exit = None
    /\ stdout = 0
    /\ popped = <<>>
    /\ generated = <<>>
    /\ pushed = <<>>
    /\ runs = 0
    /\ earlier = <<>>

\* nothing has run: no search, no call of find_reachable_cells
Idle == NoSearch /\ bfs = None

\* bound on the energy of the chains followed from the puzzle's example
MaxExampleEnergy == 12600

\* one more generated move on a chain from the example: the child of an
\* arrangement that is not the target (a dequeued target returns, line 237)
Descend ==
    /\ pc = "paths"
    /\ path.burrow # target
    /\ \E m \in Range(Moves(path.burrow)) :
          /\ Extend(path, m).energy <= MaxExampleEnergy
          /\ path' = Extend(path, m)
    /\ UNCHANGED <<input, pc, queue, visited, node, result, exit, stdout,
                   popped, generated, pushed, runs, earlier, bfs>>

InitExample ==
    /\ input = Example
    /\ pc = "paths"
    /\ path = Start(from_str(input).ok)
    /\ Idle

NextExample == Descend

SpecExample == InitExample /\ [][NextExample]_vars

----------------------------------------------------------------------------
(* main on a set of input texts, followed by the enumeration of the chains *)
(* of generated moves from the parsed arrangement                          *)

\* bound on the length of the chains enumerated after a search
MaxPathMoves == 8

\* one more generated move on a chain from the initial arrangement of the search
Walk ==
    /\ pc = "done"
    /\ path # None
    /\ path.moves < MaxPathMoves
    /\ \E m \in Range(Moves(path.burrow)) : path' = Extend(path, m)
    /\ UNCHANGED <<input, pc, queue, visited, node, result, exit, stdout,
                   popped, generated, pushed, runs, earlier, bfs>>

EmptyHall == Rep(".", 11)

\* full-size grids whose search is short
Swapped(a, b, c, d) ==
    Text(<<Top, HallRow(EmptyHall), OuterRow(a, b, c, d), InnerRow("A", "B", "C", "D"), Bottom>>)

\* two pieces waiting in the hallway corners
Waiting ==
    Text(<<Top, HallRow(<<"A", ".", ".", ".", ".", ".", ".", ".", ".", ".", "B">>),
           OuterRow(".", ".", "C", "D"), InnerRow("A", "B", "C", "D"), Bottom>>)

\* a wall across the hallway between the two swapped rooms
WalledHall ==
    Text(<<Top, HallRow(<<".", ".", ".", "#", ".", ".", ".", ".", ".", ".", ".">>),
           OuterRow("B", "A", "C", "D"), InnerRow("A", "B", "C", "D"), Bottom>>)

\* the first room sealed off from the hallway by a wall, a Bronze inside
SealedRoom ==
    Text(<<Top, HallRow(EmptyHall), OuterRow("#", "A", "C", "D"),
           InnerRow("B", "B", "C", "D"), Bottom>>)

\* a sorted 4-deep grid
DeepSorted ==
    Text(<<Top, HallRow(EmptyHall), OuterRow("A", "B", "C", "D"), InnerRow("A", "B", "C", "D"),
           InnerRow("A", "B", "C", "D"), InnerRow("A", "B", "C", "D"), Bottom>>)

\* an Amber standing on the cell above the first room
OnMouth ==
    Text(<<Top, HallRow(<<".", ".", "A", ".", ".", ".", ".", ".", ".", ".", ".">>),
           OuterRow(".", "B", "C", "D"), InnerRow("A", "B", "C", "D"), Bottom>>)

\* a 4-deep grid with an Amber on its third room row, below two Empty cells,
\* and the outer cell of the Bronze room Empty
DeepAstray ==
    Text(<<Top, HallRow(EmptyHall), OuterRow(".", ".", "C", "D"), InnerRow(".", "B", "C", "D"),
           InnerRow("A", ".", ".", "."), InnerRow(".", ".", ".", "."), Bottom>>)

\* the sorted grid with "\r\n" line endings
CrLf ==
    Flatten([i \in 1..Len(Lines(target_str)) |-> Lines(target_str)[i] \o <<"\r", "\n">>])

SearchTexts ==
    {target_str, Swapped("B", "A", "C", "D"), Swapped("A", "C", "B", "D"),
     Swapped("A", "B", "D", "C"), Waiting, WalledHall, SealedRoom, DeepSorted, OnMouth,
     DeepAstray, CrLf}

\* bound on the length of the short texts
MaxTextLen == 3
TextChars == {"#", ".", " ", "A", "D", "x", "\n"}
ShortTexts == UNION {[1..n -> TextChars] : n \in 0..MaxTextLen}

\* the example with one character replaced by one that is no cell
BadChars == {"E", "a", "\t"}
Corrupted == {[Example EXCEPT ![i] = c] : i \in 1..Len(Example), c \in BadChars}

Texts == SearchTexts \cup ShortTexts \cup Corrupted

Init ==
    /\ input \in Texts
    /\ pc = "main"
    /\ path = None
    /\ Idle

Next == Main \/ Return \/ Expand \/ Exhausted \/ Walk

Spec == Init /\ [][Next]_vars

\* the scheduling of a single thread: main runs until it returns or panics
FairSpec == Spec /\ WF_vars(Main \/ Return \/ Expand \/ Exhausted)

----------------------------------------------------------------------------
(* main called again and again in one process                              *)

\* bound on the number of calls of part_a
MaxRuns == 3

RunTexts == {Swapped("B", "A", "C", "D"), Waiting, SealedRoom, target_str}

\* main is called once more, with any of the texts
Again ==
    /\ pc = "done"
    /\ runs < MaxRuns
    /\ input' \in RunTexts
    /\ pc' = "main"
    /\ exit' = None
    /\ UNCHANGED <<queue, visited, node, result, stdout, popped, generated, pushed,
                   path, runs, earlier, bfs>>

InitRuns ==
    /\ input \in RunTexts
    /\ pc = "main"
    /\ path = None
    /\ Idle

NextRuns == Main \/ Return \/ Expand \/ Exhausted \/ Again

SpecRuns == InitRuns /\ [][NextRuns]_vars

----------------------------------------------------------------------------
(* main on the unfolded example: the first iterations of the search        *)

\* bound on the number of iterations followed on the unfolded example
MaxUnfoldedPops == 120

ExpandUnfolded == stdout < MaxUnfoldedPops /\ Expand

InitUnfolded ==
    /\ input = Unfolded
    /\ pc = "main"
    /\ path = None
    /\ Idle

NextUnfolded == Main \/ ExpandUnfolded

SpecUnfolded == InitUnfolded /\ [][NextUnfolded]_vars

----------------------------------------------------------------------------
(* The puzzle's two examples                                               *)

\* C1: from the 2-deep example, no chain of generated moves reaches the target
\* arrangement with a total energy below 12521 (part_a dequeues in order of
\* energy, so 12521 is what it returns once such a chain exists)
C1_ExampleCost == path.burrow = target => path.energy >= 12521

\* a chain of generated moves from the example ends in the target with energy 12521
C1_ExampleSolved == path.burrow = target /\ path.energy = 12521

\* C2: on the unfolded 4-deep example part_a returns Some(44169); it returns Some
\* only from a dequeued arrangement equal to target, so every dequeued
\* arrangement must at least have target's number of rows
C2_UnfoldedReturns ==
    /\ pc = "done" => result = Some(44169)
    /\ node # None => Len(node.burrow) = Len(target)

----------------------------------------------------------------------------
(* find_reachable_cells, one action per turn of its while loop             *)

MaxReachRows == 3

\* every grid of up to MaxReachRows rows of two cells
SmallGrids == UNION {[1..h -> [1..2 -> {"Empty", "Wall", "Amber"}]] : h \in 1..MaxReachRows}

\* the burrows of four of the texts, rows of unequal length included
FullGrids == {from_str(t).ok : t \in {Example, Waiting, WalledHall, OnMouth}}

\* the start cells tried on a grid: every cell, and the cells one past its right and lower edge
Starts(b) == {<<x, y>> : x \in 0..Len(b[1]), y \in 0..Len(b)}

\* the locals after the two statements before the loop (lines 155-162)
ReachBegin(b, x, y) ==
    [grid |-> b, x |-> x, y |-> y,
     queue |-> <<<<x, y, 0>>>>, visited |-> {<<x, y>>}, reachable_cells |-> <<>>,
     turns |-> 0, pushes |-> <<<<x, y>>>>]

InitReach ==
    /\ \E b \in SmallGrids \cup FullGrids : \E c \in Starts(b) : bfs = ReachBegin(b, c[1], c[2])
    /\ pc = "reach"
    /\ input = <<>>
    /\ path = None
    /\ NoSearch

\* one turn of the while loop: pop_front, the four neighbours, the for loop
ReachTurn ==
    /\ pc = "reach"
    /\ bfs.queue # <<>>
    /\ \E found \in {Found(bfs.grid, Head(bfs.queue)[1], Head(bfs.queue)[2],
                           Head(bfs.queue)[3], bfs.visited)} :
          bfs' = [bfs EXCEPT
                    !.queue = Tail(@) \o found,
                    !.visited = @ \cup {<<found[i][1], found[i][2]>> : i \in 1..Len(found)},
                    !.reachable_cells = @ \o found,
                    !.turns = @ + 1,
                    !.pushes = @ \o [i \in 1..Len(found) |-> <<found[i][1], found[i][2]>>]]
    /\ UNCHANGED <<input, pc, queue, visited, node, result, exit, stdout,
                   popped, generated, pushed, path, runs, earlier>>

\* pop_front is None: the loop ends and reachable_cells is returned
ReachReturn ==
    /\ pc = "reach"
    /\ bfs.queue = <<>>
    /\ pc' = "reached"
    /\ UNCHANGED <<input, queue, visited, node, result, exit, stdout,
                   popped, generated, pushed, path, runs, earlier, bfs>>

NextReach == ReachTurn \/ ReachReturn

SpecReach == InitReach /\ [][NextReach]_vars

FairReach == SpecReach /\ WF_vars(ReachTurn \/ ReachReturn)

----------------------------------------------------------------------------
(* PriorityQueue on its own: any sequence of pushes and pops               *)

MaxPushes == 3

\* two payloads and three priorities
QueueValues == {<<<<"Amber">>>>, <<<<"Bronze">>>>}
QueuePriorities == {0, 1, 2}

InitQueue ==
    /\ pc = "queue"
    /\ input = <<>>
    /\ path = None
    /\ Idle

\* queue.push(v, Reverse(p))
QueuePush ==
    /\ pc = "queue"
    /\ queue.next_index < MaxPushes
    /\ \E v \in QueueValues, p \in QueuePriorities :
          /\ queue' = PQ_push(queue, v, p)
          /\ pushed' = (queue.next_index :> [burrow |-> v, energy |-> p, parent |-> -1])
                          @@ pushed
    /\ UNCHANGED <<input, pc, visited, node, result, exit, stdout, popped, generated,
                   path, runs, earlier, bfs>>

\* queue.pop(): None on an empty queue
QueuePop ==
    /\ pc = "queue"
    /\ \E p \in {PQ_pop(queue)} :
          IF p.item = Panicked
          THEN /\ pc' = "panicked"
               /\ UNCHANGED <<queue, node, popped>>
          ELSE /\ queue' = p.queue
               /\ node' = p.item
               /\ popped' = IF p.item = None THEN popped ELSE Append(popped, p.item)
               /\ UNCHANGED pc
    /\ UNCHANGED <<input, visited, result, exit, stdout, generated, pushed,
                   path, runs, earlier, bfs>>

NextQueue == QueuePush \/ QueuePop

SpecQueue == InitQueue /\ [][NextQueue]_vars

----------------------------------------------------------------------------
(* The layout as the claims name it                                        *)

RoomColumn(a) ==
    CASE a = "Amber" -> 3 [] a = "Bronze" -> 5 [] a = "Copper" -> 7 [] a = "Desert" -> 9
OuterCell(a) == <<RoomColumn(a), 2>>
InnerCell(a) == <<RoomColumn(a), 3>>
RoomCells == {<<x, y>> : x \in {3, 5, 7, 9}, y \in {2, 3}}
HallwayStops == {<<x, 1>> : x \in {1, 2, 4, 6, 8, 10, 11}}
At(b, c) == get(b, c[1], c[2])
IsSome(r) == "some" \in DOMAIN r

\* a piece in the inner cell of its own room, or in the outer cell above its own type
SettledPiece(b, x, y, a) ==
    \/ <<x, y>> = InnerCell(a)
    \/ <<x, y>> = OuterCell(a) /\ At(b, InnerCell(a)) = a
Pieces(b) == Range(find_amphipods(b))
SettledPieces(b) == {t \in Pieces(b) : SettledPiece(b, t[1], t[2], t[3])}
Reachable(b, x, y) == {<<r[1], r[2]>> : r \in Range(find_reachable_cells(b, x, y))}

\* the destinations of the children generated from cell (x, y) by the last expansion
Destinations(x, y) ==
    {<<generated[i].nx, generated[i].ny>> :
        i \in {j \in 1..Len(generated) : generated[j].x = x /\ generated[j].y = y}}

\* the last expansion was of node, and the search is still the latest thing done
Expanded == path = None /\ node # None /\ pc = "search"

----------------------------------------------------------------------------
(* The search                                                              *)

FirstDequeued(i) == \A j \in 1..(i - 1) : popped[j].burrow # popped[i].burrow

\* the entry pushed under index k ends a chain of generated moves from the initial
\* arrangement whose energies add up to the entry's energy
RECURSIVE IsChain(_)
IsChain(k) ==
    IF pushed[k].parent = -1 THEN pushed[k].energy = 0
    ELSE LET parent == pushed[pushed[k].parent]
         IN  /\ \E m \in Range(Moves(parent.burrow)) :
                   /\ m.burrow = pushed[k].burrow
                   /\ pushed[k].energy = parent.energy + m.steps * energy(m.amphipod)
             /\ IsChain(pushed[k].parent)

\* C3: the energy at which an arrangement is first dequeued is at most the total
\* energy of any chain of generated moves from the initial arrangement to it, and
\* a returned Some(c) is the energy of such a chain to the target
C3_Optimal ==
    path # None =>
        /\ \A i \in 1..Len(popped) :
              (popped[i].burrow = path.burrow /\ FirstDequeued(i))
                  => popped[i].energy <= path.energy
        /\ (IsSome(result) /\ path.burrow = target) => result.some <= path.energy
        /\ (IsSome(result) /\ path.moves = 0) =>
              /\ node.burrow = target
              /\ result.some = node.energy
              /\ IsChain(node.index)

\* a chain to the target that costs more than what the search returned
C3_CostlierChain ==
    /\ path # None
    /\ IsSome(result)
    /\ path.burrow = target
    /\ path.energy > result.some
    /\ result.some > 0

\* C4: part_a terminates and never panics; it returns Some only at a dequeued
\* target, so a search whose target cannot be reached ends with None
C4_Terminates ==
    /\ <>(pc = "done")
    /\ [](pc # "panicked")
    /\ [](IsSome(result) => node.burrow = target)
    /\ []((path # None /\ path.burrow = target) => result # None)

\* the search of the sealed room has emptied its queue and returned None
C4_SealedReturnsNone ==
    /\ input = SealedRoom
    /\ pc = "done"
    /\ result = None
    /\ queue.heap = {}
    /\ Len(popped) > 1

\* C5: calls of part_a on equal arrangements return equal results whatever was
\* run before, and each call starts from a queue holding only the initial
\* arrangement and a visited set holding only it
C5_Deterministic ==
    /\ \A i, j \in 1..Len(earlier) :
          earlier[i][1] = earlier[j][1] => earlier[i][2] = earlier[j][2]
    /\ (pc = "search" /\ stdout = 0) =>
          /\ visited = {pushed[0].burrow}
          /\ queue.heap = {<<0, 0>>}
          /\ DOMAIN queue.values = {0}

\* the same arrangement searched before and after another one
C5_SameAgain ==
    /\ Len(earlier) = 3
    /\ earlier[1][1] = earlier[3][1]
    /\ earlier[2][1] # earlier[1][1]
    /\ IsSome(earlier[1][2])
    /\ earlier[1][2].some > 0

ValidChars == {"#", ".", " ", "A", "B", "C", "D"}
HasInvalid(text) == \E l \in Range(Lines(text)) : \E c \in Range(l) : c \notin ValidChars

\* C6: a character of an input line other than # . space A B C D is mapped to no
\* Cell, from_str returns the error, and main returns it without calling part_a
C6_ParseError ==
    /\ \A c \in (TextChars \cup BadChars) \ ValidChars : IsErr(Cell_from_char(c))
    /\ (pc # "main" /\ HasInvalid(input)) =>
          /\ pc = "done"
          /\ exit = Err("Invalid amphipod")
          /\ IsErr(from_str(input))
          /\ runs = 0
          /\ result = Running
          /\ queue = PQ_new
          /\ visited = {}
          /\ stdout = 0

\* main has returned the parse error of a full grid with one bad character
C6_CorruptedRejected ==
    /\ input \in Corrupted
    /\ HasInvalid(input)
    /\ pc = "done"
    /\ IsErr(exit)
    /\ runs = 0

Expansions == Len(SelectSeq(popped, LAMBDA n : n.burrow # target))

\* C7: no arrangement is expanded twice in one run: the expansions are at most
\* the distinct arrangements dequeued
C7_NoReexpansion ==
    /\ Expansions <= Cardinality({popped[i].burrow : i \in 1..Len(popped)})
    /\ \A i, j \in 1..Len(popped) :
          (i < j /\ popped[j].burrow # target) => popped[i].burrow # popped[j].burrow

----------------------------------------------------------------------------
(* The moves generated                                                     *)

Stays(b, c) == \A t \in SettledPieces(b) : At(c, <<t[1], t[2]>>) = t[3]

RECURSIVE Ancestors(_)
Ancestors(k) ==
    IF pushed[k].parent = -1 THEN {}
    ELSE {pushed[k].parent} \cup Ancestors(pushed[k].parent)

\* C8: a settled piece of a dequeued arrangement is no move source, it is in the
\* same cell in every generated child, and the entries pushed keep every piece
\* that was settled in one of their ancestors
C8_SettledStay ==
    Expanded =>
        /\ \A i \in 1..Len(generated) :
              /\ Stays(node.burrow, generated[i].burrow)
              /\ <<generated[i].x, generated[i].y, generated[i].amphipod>>
                    \notin SettledPieces(node.burrow)
        /\ \A k \in DOMAIN pushed :
              pushed[k].parent = node.index =>
                  \A j \in Ancestors(k) : Stays(pushed[j].burrow, pushed[k].burrow)

\* children were pushed from an arrangement with a piece settled in an outer cell,
\* two or more moves away from the initial arrangement
C8_SettledAndMoving ==
    /\ Expanded
    /\ \E t \in SettledPieces(node.burrow) : t[2] = 2
    /\ \E k \in DOMAIN pushed :
          pushed[k].parent = node.index /\ Cardinality(Ancestors(k)) >= 2

\* the pieces of the expanded arrangement that are in a room cell and not settled
RoomMovers ==
    {t \in Pieces(node.burrow) :
        <<t[1], t[2]>> \in RoomCells /\ ~SettledPiece(node.burrow, t[1], t[2], t[3])}

\* the statement of C9 as claimed: from a room cell, the destinations generated are
\* the reachable hallway stops and the reachable cells of the piece's own room
C9_RoomOrOwnRoom ==
    Expanded =>
        \A t \in RoomMovers :
            Destinations(t[1], t[2]) =
                {c \in Reachable(node.burrow, t[1], t[2]) :
                    c \in HallwayStops \/ c \in {OuterCell(t[3]), InnerCell(t[3])}}

\* C9 (amended): from a room cell, the destinations generated for a piece that is
\* not settled are exactly the reachable hallway stops; no move from a room cell
\* into a room cell is generated, not even into the piece's own room
C9_RoomToHallwayOnly ==
    Expanded =>
        \A t \in RoomMovers :
            Destinations(t[1], t[2]) =
                {c \in Reachable(node.burrow, t[1], t[2]) : c \in HallwayStops}

\* a piece in a room cell could reach a cell of its own room and got only its
\* hallway moves
C9_OwnRoomInReach ==
    /\ Expanded
    /\ \E t \in RoomMovers :
          /\ OuterCell(t[3]) \in Reachable(node.burrow, t[1], t[2])
          /\ Destinations(t[1], t[2]) # {}
          /\ OuterCell(t[3]) \notin Destinations(t[1], t[2])

\* the deepest empty cell of the room of a type, as a set: empty when the room is full
DeepestEmpty(b, a) ==
    IF At(b, InnerCell(a)) = "Empty" THEN {InnerCell(a)}
    ELSE IF At(b, OuterCell(a)) = "Empty" THEN {OuterCell(a)}
    ELSE {}

\* C10: a child generated from a hallway stop puts the piece in the deepest empty
\* cell of its own room, and that room holds no piece of another type
C10_HallwayToRoom ==
    Expanded =>
        \A i \in 1..Len(generated) :
            <<generated[i].x, generated[i].y>> \in HallwayStops =>
                /\ {<<generated[i].nx, generated[i].ny>>}
                      = DeepestEmpty(node.burrow, generated[i].amphipod)
                /\ \A c \in {OuterCell(generated[i].amphipod), InnerCell(generated[i].amphipod)} :
                      At(node.burrow, c) \in {"Empty", generated[i].amphipod}

\* a piece went from the hallway into the outer cell of its room, above its own type
C10_IntoOuterCell ==
    /\ Expanded
    /\ \E i \in 1..Len(generated) :
          /\ <<generated[i].x, generated[i].y>> \in HallwayStops
          /\ <<generated[i].nx, generated[i].ny>> = OuterCell(generated[i].amphipod)
          /\ At(node.burrow, InnerCell(generated[i].amphipod)) = generated[i].amphipod

Abs(n) == IF n < 0 THEN -n ELSE n

\* every piece of the arrangement is on a room cell or on a hallway stop
OnStops(b) == \A t \in Pieces(b) : <<t[1], t[2]>> \in RoomCells \cup HallwayStops

\* the search was started on an arrangement whose pieces are all on such cells
StartsOnStops == 0 \in DOMAIN pushed /\ OnStops(pushed[0].burrow)

\* C11: the cells above the rooms are walked through and counted as steps, and
\* from an arrangement with every piece on a room cell or a hallway stop no
\* generated child, no pushed entry and no chain of moves has a piece elsewhere
C11_MouthNeverAStop ==
    StartsOnStops =>
        /\ Expanded =>
              /\ \A i \in 1..Len(generated) :
                    /\ OnStops(generated[i].burrow)
                    /\ (<<generated[i].x, generated[i].y>> \in RoomCells) =>
                          /\ At(node.burrow, <<generated[i].x, 1>>) = "Empty"
                          /\ generated[i].steps =
                                (generated[i].y - 1) + Abs(generated[i].x - generated[i].nx)
                    /\ (<<generated[i].x, generated[i].y>> \in HallwayStops) =>
                          /\ At(node.burrow, <<generated[i].nx, 1>>) = "Empty"
                          /\ generated[i].steps =
                                (generated[i].ny - 1) + Abs(generated[i].x - generated[i].nx)
              /\ \A k \in DOMAIN pushed :
                    pushed[k].parent = node.index => OnStops(pushed[k].burrow)
        /\ path # None => OnStops(path.burrow)

\* a piece left its room for a hallway stop on the far side of another room's mouth
C11_PastAMouth ==
    /\ StartsOnStops
    /\ Expanded
    /\ \E i \in 1..Len(generated) :
          /\ <<generated[i].x, generated[i].y>> \in RoomCells
          /\ <<generated[i].nx, generated[i].ny>> \in HallwayStops
          /\ Abs(generated[i].x - generated[i].nx) >= 3
          /\ ~generated[i].skipped

\* the cost of one step as the claims give it
StepCost(a) ==
    CASE a = "Amber" -> 1 [] a = "Bronze" -> 10 [] a = "Copper" -> 100 [] a = "Desert" -> 1000

\* the entries pushed by the last expansion
PushedNow == {k \in DOMAIN pushed : pushed[k].parent = node.index}

\* C12: a child of a node dequeued at energy e is generated, and pushed, at
\* e + steps * energy(T), T the type on the source cell and steps the count
\* find_reachable_cells gives for the source and the destination
C12_ChildCost ==
    Expanded =>
        /\ \A i \in 1..Len(generated) :
              /\ generated[i].amphipod = At(node.burrow, <<generated[i].x, generated[i].y>>)
              /\ <<generated[i].nx, generated[i].ny, generated[i].steps>>
                    \in Range(find_reachable_cells(node.burrow, generated[i].x, generated[i].y))
              /\ generated[i].energy =
                    node.energy + generated[i].steps * StepCost(generated[i].amphipod)
        /\ \A k \in PushedNow :
              \E i \in 1..Len(generated) :
                  /\ ~generated[i].skipped
                  /\ generated[i].burrow = pushed[k].burrow
                  /\ pushed[k].energy =
                        node.energy + generated[i].steps * StepCost(generated[i].amphipod)
        /\ Cardinality(PushedNow)
              = Cardinality({i \in 1..Len(generated) : ~generated[i].skipped})

\* a Desert piece moved two or more steps from a node dequeued above energy 0
C12_DesertMoved ==
    /\ Expanded
    /\ node.energy > 0
    /\ \E i \in 1..Len(generated) :
          /\ generated[i].amphipod = "Desert"
          /\ generated[i].steps >= 2
          /\ ~generated[i].skipped
          /\ \E k \in PushedNow : pushed[k].burrow = generated[i].burrow

----------------------------------------------------------------------------
(* find_reachable_cells                                                    *)

GridCells(b) == UNION {{<<x, y - 1>> : x \in 0..(Len(b[y]) - 1)} : y \in 1..Len(b)}

Adjacent(c, d) == Abs(c[1] - d[1]) + Abs(c[2] - d[2]) = 1

\* the Empty cells by the length of the shortest path of Empty cells from the
\* start: ls[n + 1] holds those at length n, done those found so far
RECURSIVE Layers(_, _, _)
Layers(b, done, ls) ==
    Let({c \in GridCells(b) \ done :
            At(b, c) = "Empty" /\ \E d \in ls[Len(ls)] : Adjacent(c, d)},
        LAMBDA next : IF next = {} THEN ls
                      ELSE Layers(b, done \cup next, Append(ls, next)))

ShortestPaths(b, x, y) ==
    Let(Layers(b, {<<x, y>>}, <<{<<x, y>>}>>), LAMBDA ls :
        UNION {{<<c[1], c[2], n - 1>> : c \in ls[n]} : n \in 2..Len(ls)})

\* C13: find_reachable_cells returns the Empty cells joined to the start by a
\* path of adjacent Empty cells, each once and with the length of the shortest
\* such path, and never the start, a Wall, a Space or an occupied cell
C13_Reachable ==
    pc = "reached" =>
        /\ Range(bfs.reachable_cells) = ShortestPaths(bfs.grid, bfs.x, bfs.y)
        /\ Len(bfs.reachable_cells)
              = Cardinality({<<r[1], r[2]>> : r \in Range(bfs.reachable_cells)})
        /\ \A r \in Range(bfs.reachable_cells) :
              /\ At(bfs.grid, <<r[1], r[2]>>) = "Empty"
              /\ <<r[1], r[2]>> # <<bfs.x, bfs.y>>
        /\ bfs.reachable_cells = find_reachable_cells(bfs.grid, bfs.x, bfs.y)

\* a cell was reached around an obstacle, on a grid that holds a piece the walk
\* could not pass
C13_Detour ==
    /\ pc = "reached"
    /\ \E r \in Range(bfs.reachable_cells) :
          r[3] > Abs(r[1] - bfs.x) + Abs(r[2] - bfs.y)
    /\ \E c \in GridCells(bfs.grid) :
          /\ At(bfs.grid, c) = "Amber"
          /\ c # <<bfs.x, bfs.y>>
          /\ \E r \in Range(bfs.reachable_cells) : Adjacent(c, <<r[1], r[2]>>)

----------------------------------------------------------------------------
(* PriorityQueue                                                           *)

\* the entry a pop has just returned
Popped == popped'[Len(popped')]

\* C14: pop returns a queued entry of least cost and, among the queued entries
\* of that cost, the one with the least sequence number, with the payload pushed
\* under that number; sequence numbers are given in push order
C14_PopOrder ==
    [][/\ (pc = "queue" /\ popped' # popped) =>
              /\ <<Popped.energy, Popped.index>> \in queue.heap
              /\ \A h \in queue.heap :
                    \/ Popped.energy < h[1]
                    \/ Popped.energy = h[1] /\ Popped.index <= h[2]
              /\ Popped.burrow = pushed[Popped.index].burrow
              /\ Popped.energy = pushed[Popped.index].energy
              /\ queue'.heap = queue.heap \ {<<Popped.energy, Popped.index>>}
       /\ (pc = "queue" /\ pushed' # pushed) =>
              /\ DOMAIN pushed' = DOMAIN pushed \cup {queue.next_index}
              /\ \A k \in DOMAIN pushed : k < queue.next_index
              /\ queue'.heap = queue.heap \cup {<<pushed'[queue.next_index].energy,
                                                 queue.next_index>>}
       /\ pc' # "panicked"]_vars

\* pop returned the older of two entries of equal cost and unequal payload, while
\* an entry pushed before both, of higher cost, stays queued
C14_TieByAge ==
    /\ pc = "queue"
    /\ node # None
    /\ \E h \in queue.heap :
          /\ h[1] = node.energy
          /\ h[2] > node.index
          /\ queue.values[h[2]] # node.burrow
    /\ \E h \in queue.heap : h[1] > node.energy /\ h[2] < node.index

----------------------------------------------------------------------------
(* The visited set                                                         *)

\* the node just expanded had been dequeued, and so put in visited, earlier in the run
StaleDuplicate ==
    /\ Expanded
    /\ node.burrow \in visited
    /\ \E i \in 1..(Len(popped) - 1) : popped[i].burrow = node.burrow

\* C15: a node popped with an arrangement that is already in visited is dropped:
\* no child is generated from it and nothing is pushed
C15_StaleDiscarded == StaleDuplicate => (generated = <<>> /\ PushedNow = {})

\* C16: every child generated by an expansion is pushed, whether its arrangement
\* is in visited or not
C16_AllPushed ==
    Expanded =>
        /\ \A i \in 1..Len(generated) : ~generated[i].skipped
        /\ Cardinality(PushedNow) = Len(generated)

----------------------------------------------------------------------------
(* The child of a move                                                     *)

SameShape(b, c) == Len(b) = Len(c) /\ \A y \in 1..Len(b) : Len(b[y]) = Len(c[y])

CountOf(b, a) == Cardinality({t \in Pieces(b) : t[3] = a})

\* C17: a generated child has the parent's dimensions and the parent's cells but
\* for two: the source, which held the piece, is Empty, and the destination,
\* which was Empty, holds the piece; the number of pieces of each type is kept
C17_TwoCells ==
    Expanded =>
        \A i \in 1..Len(generated) :
            LET src == <<generated[i].x, generated[i].y>>
                dst == <<generated[i].nx, generated[i].ny>>
            IN  /\ src # dst
                /\ SameShape(node.burrow, generated[i].burrow)
                /\ At(node.burrow, src) = generated[i].amphipod
                /\ At(node.burrow, dst) = "Empty"
                /\ At(generated[i].burrow, src) = "Empty"
                /\ At(generated[i].burrow, dst) = generated[i].amphipod
                /\ \A c \in GridCells(node.burrow) \ {src, dst} :
                      At(generated[i].burrow, c) = At(node.burrow, c)
                /\ \A a \in Amphipod :
                      CountOf(generated[i].burrow, a) = CountOf(node.burrow, a)

\* a child was pushed from a full burrow, rows of Space cells included
C17_ChildOfFullGrid ==
    /\ Expanded
    /\ At(node.burrow, <<0, 3>>) = "Space"
    /\ At(node.burrow, <<0, 0>>) = "Wall"
    /\ node.energy > 0
    /\ \E i \in 1..Len(generated) : ~generated[i].skipped

----------------------------------------------------------------------------
(* The target                                                              *)

\* the cells of b for which is_room holds hold the type of their column, and the
\* eleven hallway cells are Empty
Sorted(b) ==
    /\ \A c \in GridCells(b) :
          is_room(c[1], c[2]) => (At(b, c) \in Amphipod /\ RoomColumn(At(b, c)) = c[1])
    /\ \A a \in Amphipod : At(b, OuterCell(a)) = a /\ At(b, InnerCell(a)) = a
    /\ \A x \in 1..11 : At(b, <<x, 1>>) = "Empty"

\* C18: in the target that part_a builds before its loop every is_room cell
\* holds the type part_a maps to it and the hallway is Empty; is_room, the match
\* of part_a and the claim's columns name the same cells; the arrangement a
\* search returns at is that same target
C18_Target ==
    /\ (pc = "search" /\ stdout = 0) =>
          /\ Sorted(target)
          /\ {c \in GridCells(target) : is_room(c[1], c[2])} = RoomCells
          /\ \A a \in Amphipod : targets(a) = <<OuterCell(a), InnerCell(a)>>
          /\ \A a \in Amphipod : CountOf(target, a) = 2
    /\ (IsSome(result) /\ path.moves = 0) => (node.burrow = target /\ Sorted(node.burrow))

\* a search that had to move pieces has returned at the target
C18_ReturnedAtTarget ==
    /\ pc = "done"
    /\ IsSome(result)
    /\ result.some > 0
    /\ Sorted(node.burrow)

\* the search was started on the arrangement of the five lines of Burrow::target
StartsAtTarget == 0 \in DOMAIN pushed /\ pushed[0].burrow = from_str(target_str).ok

\* C19: started on the target, part_a returns Some(0) at its first dequeue: one
\* node popped, one line printed, no child generated, nothing pushed but the
\* initial entry, nothing put in visited but the initial arrangement
C19_TargetAtOnce ==
    (StartsAtTarget /\ pc \in {"search", "done", "panicked"}) =>
        /\ pc # "panicked"
        /\ pc = "search" => (popped = <<>> /\ queue.heap = {<<0, 0>>})
        /\ pc = "done" =>
              /\ result = Some(0)
              /\ exit = Ok(<<0, None>>)
              /\ Len(popped) = 1
              /\ popped[1].burrow = pushed[0].burrow
              /\ stdout = 1
              /\ generated = <<>>
              /\ DOMAIN pushed = {0}
              /\ visited = {pushed[0].burrow}
              /\ queue.heap = {}

\* main has returned from a search started on the target
C19_SortedInput ==
    /\ StartsAtTarget
    /\ pc = "done"
    /\ IsSome(result)
    /\ input = target_str

\* the number of cells of the grid, and one more for a start that is none of them
MostTurns ==
    Cardinality(GridCells(bfs.grid)) + (IF InBounds(bfs.grid, bfs.x, bfs.y) THEN 0 ELSE 1)

\* C20: find_reachable_cells returns; no cell is put on its queue twice, every
\* cell put on it is taken off once, and the turns of the loop are at most the
\* cells of the grid
C20_ReachTerminates ==
    /\ <>(pc = "reached")
    /\ [](Len(bfs.pushes) = Cardinality(Range(bfs.pushes)))
    /\ [](bfs.turns + Len(bfs.queue) = Len(bfs.pushes))
    /\ [](bfs.turns <= MostTurns)
    /\ [](pc = "reached" => (bfs.queue = <<>> /\ bfs.turns = Len(bfs.pushes)))

\* the loop has ended after as many turns as the grid has cells, six or more
C20_EveryCellOnce ==
    /\ pc = "reached"
    /\ InBounds(bfs.grid, bfs.x, bfs.y)
    /\ bfs.turns = Cardinality(GridCells(bfs.grid))
    /\ bfs.turns >= 6

----------------------------------------------------------------------------
(* Burrow's accessors on their own: get, take and find_amphipods called on  *)
(* grids of rows of unequal length, with coordinates inside and outside     *)

MaxCellRows == 2
MaxRowLen == 2

\* every row of up to MaxRowLen cells, every grid of up to MaxCellRows such rows
CellRows == UNION {[1..w -> {"Wall", "Amber"}] : w \in 0..MaxRowLen}
CellGrids == UNION {[1..h -> CellRows] : h \in 0..MaxCellRows}

\* the length of the longest row
Widest(b) ==
    IF b = <<>> THEN 0
    ELSE CHOOSE w \in {Len(b[j]) : j \in 1..Len(b)} : \A j \in 1..Len(b) : Len(b[j]) <= w

\* the coordinates tried: every cell of the bounding box and one column and
\* one row past it
CellCoords(b) == {<<x, y>> : x \in 0..Widest(b), y \in 0..Len(b)}

InitCells ==
    /\ \E b \in CellGrids \cup {from_str(Example).ok} :
          bfs = [grid |-> b, taken |-> FALSE, call |-> None]
    /\ pc = "cells"
    /\ input = <<>>
    /\ path = None
    /\ NoSearch

\* self.get(x, y)
GetCell ==
    /\ pc = "cells"
    /\ \E c \in CellCoords(bfs.grid) :
          bfs' = [grid |-> bfs.grid, taken |-> bfs.taken,
                  call |-> [op |-> "get", x |-> c[1], y |-> c[2], before |-> bfs.grid,
                            value |-> get(bfs.grid, c[1], c[2])]]
    /\ UNCHANGED <<input, pc, queue, visited, node, result, exit, stdout,
                   popped, generated, pushed, path, runs, earlier>>

\* self.take(x, y), on a grid that no take has changed: part_a calls take
\* once on each clone (lines 280-281)
TakeCell ==
    /\ pc = "cells"
    /\ ~bfs.taken
    /\ \E c \in CellCoords(bfs.grid) :
          \E t \in {take(bfs.grid, c[1], c[2])} :
              bfs' = [grid |-> t.cells, taken |-> TRUE,
                      call |-> [op |-> "take", x |-> c[1], y |-> c[2], before |-> bfs.grid,
                                value |-> t.value]]
    /\ UNCHANGED <<input, pc, queue, visited, node, result, exit, stdout,
                   popped, generated, pushed, path, runs, earlier>>

\* self.find_amphipods().collect()
FindAmphipods ==
    /\ pc = "cells"
    /\ bfs' = [grid |-> bfs.grid, taken |-> bfs.taken,
               call |-> [op |-> "find_amphipods", before |-> bfs.grid,
                         found |-> find_amphipods(bfs.grid)]]
    /\ UNCHANGED <<input, pc, queue, visited, node, result, exit, stdout,
                   popped, generated, pushed, path, runs, earlier>>

NextCells == GetCell \/ TakeCell \/ FindAmphipods

SpecCells == InitCells /\ [][NextCells]_vars

----------------------------------------------------------------------------
(* Output and results                                                      *)

\* C21: the search loop writes nothing: no line has been printed at any point
\* between the start of part_a and its return
C21_NoOutput == stdout = 0

\* C22: when part_a returns None main returns the error "Can't find a solution
\* for part A" and no cost; when part_a returns Some(c) main returns (c, None)
\* with c a natural number, the energy of the node returned at
C22_MainOutcome ==
    (pc = "done" /\ result # Running) =>
        /\ result = None =>
              /\ exit = Err("Can't find a solution for part A")
              /\ queue.heap = {}
        /\ result # None =>
              /\ IsSome(result)
              /\ result.some \in Nat
              /\ result.some = node.energy
              /\ exit = Ok(<<result.some, None>>)

\* main has returned the error for the burrow whose hallway is walled
C22_NoSolution ==
    /\ input = WalledHall
    /\ pc = "done"
    /\ result = None
    /\ IsErr(exit)
    /\ Len(popped) > 1

\* the last call of SpecCells, when it was a call of the operation op
Called(op) == pc = "cells" /\ bfs.call # None /\ bfs.call.op = op

\* the coordinates of the last call lie outside the grid it was made on
Outside(c) == ~(c.y < Len(c.before)) \/ ~(c.x < Len(c.before[c.y + 1]))

\* C23: get and take called with coordinates outside the grid (y not less than
\* the number of rows, or x not less than the length of row y) return None,
\* do not panic and leave the grid as it was; inside the grid they return
\* the cell
C23_OutOfBounds ==
    (Called("get") \/ Called("take")) =>
        /\ pc # "panicked"
        /\ Outside(bfs.call) =>
              /\ bfs.call.value = NoCell
              /\ bfs.grid = bfs.call.before
        /\ ~Outside(bfs.call) =>
              bfs.call.value = bfs.call.before[bfs.call.y + 1][bfs.call.x + 1]

\* take was called past the end of a row that is shorter than another row
C23_PastShortRow ==
    /\ Called("take")
    /\ bfs.call.y < Len(bfs.call.before)
    /\ bfs.call.x >= Len(bfs.call.before[bfs.call.y + 1])
    /\ bfs.call.x < Widest(bfs.call.before)
    /\ bfs.call.value = NoCell
    /\ \E j \in 1..Len(bfs.grid) : \E i \in 1..Len(bfs.grid[j]) : bfs.grid[j][i] \in Amphipod

\* the occupied cells of a grid, with their coordinates
Occupied(b) ==
    {<<i - 1, j - 1, b[j][i]>> : <<i, j>> \in
        {<<i, j>> \in (1..Widest(b)) \X (1..Len(b)) : i <= Len(b[j]) /\ b[j][i] \in Amphipod}}

\* C24: find_amphipods yields every occupied cell once, with its coordinates
\* and piece, rows in ascending y and within a row ascending x, nothing for
\* Wall, Space and Empty cells, and leaves the grid as it was
C24_RowMajor ==
    Called("find_amphipods") =>
        LET found == bfs.call.found IN
        /\ bfs.grid = bfs.call.before
        /\ Range(found) = Occupied(bfs.call.before)
        /\ Len(found) = Cardinality(Occupied(bfs.call.before))
        /\ \A i, j \in 1..Len(found) :
              i < j => \/ found[i][2] < found[j][2]
                       \/ found[i][2] = found[j][2] /\ found[i][1] < found[j][1]

\* find_amphipods on a grid that holds pieces in two rows and two columns
\* beside a Wall and an Empty cell
C24_TwoRowsTwoColumns ==
    /\ Called("find_amphipods")
    /\ \E i, j \in 1..Len(bfs.call.found) :
          /\ bfs.call.found[i][1] < bfs.call.found[j][1]
          /\ bfs.call.found[i][2] > bfs.call.found[j][2]
    /\ \E r \in Range(bfs.grid) : "Wall" \in Range(r)
    /\ \E r \in Range(bfs.grid) : "Empty" \in Range(r)

----------------------------------------------------------------------------
(* The order of the search                                                  *)

\* C25: in a run of part_a the energies of the nodes popped one after the
\* other never decrease, and every entry of the frontier has an energy greater
\* than or equal to the energy of the node popped last
C25_Monotone ==
    (pc \in {"search", "done", "panicked"} /\ popped # <<>>) =>
        /\ \A i \in 1..(Len(popped) - 1) : popped[i].energy <= popped[i + 1].energy
        /\ \A e \in queue.heap : e[1] >= popped[Len(popped)].energy

\* a run that popped the same energy twice and then a greater one, with a
\* frontier that holds an entry of the last popped energy and a costlier one
C25_TiesAndRises ==
    /\ pc = "search"
    /\ \E i \in 1..(Len(popped) - 2) :
          /\ popped[i].energy = popped[i + 1].energy
          /\ popped[i + 1].energy < popped[Len(popped)].energy
    /\ \E e \in queue.heap : e[1] = popped[Len(popped)].energy
    /\ \E e \in queue.heap : e[1] > popped[Len(popped)].energy

\* C26: a generated child is skipped only when its arrangement is the initial
\* one or was dequeued before at an energy less than or equal to the child's
C26_SkipIsSafe ==
    Expanded =>
        \A i \in 1..Len(generated) :
            generated[i].skipped =>
                \/ generated[i].burrow = pushed[0].burrow
                \/ \E j \in 1..Len(popped) :
                      /\ popped[j].burrow = generated[i].burrow
                      /\ popped[j].energy <= generated[i].energy

\* an expansion with a child that was pushed and a child that was skipped,
\* its arrangement not the initial one and dequeued earlier for less
C26_SkippedCostlier ==
    /\ Expanded
    /\ \E i \in 1..Len(generated) : ~generated[i].skipped
    /\ \E i \in 1..Len(generated) :
          /\ generated[i].skipped
          /\ generated[i].burrow # pushed[0].burrow
          /\ \E j \in 1..(Len(popped) - 1) :
                /\ popped[j].burrow = generated[i].burrow
                /\ popped[j].energy < generated[i].energy

\* C27: on a chain of generated moves from an arrangement of the 2-deep
\* layout with every piece on a room cell or a hallway stop, no piece is moved
\* more than twice: a piece moved once from a room cell is on a hallway stop,
\* a piece moved twice is settled in its room, and the chain has at most twice
\* as many moves as there are pieces
C27_TwoMovesEach ==
    (path # None /\ pc = "paths" /\ input = Example) =>
        /\ path.moves = 0 => (OnStops(path.burrow) /\ SameShape(path.burrow, target))
        /\ \A t \in Pieces(path.burrow) :
              /\ path.moved[<<t[1], t[2]>>] <= 2
              /\ path.moved[<<t[1], t[2]>>] = 1 => <<t[1], t[2]>> \in HallwayStops
              /\ path.moved[<<t[1], t[2]>>] = 2 => SettledPiece(path.burrow, t[1], t[2], t[3])
        /\ path.moves <= 2 * Cardinality(Pieces(path.burrow))

\* a chain of twelve moves to the target on which six pieces moved twice each
\* and the two that started settled never moved
C27_SixTwice ==
    /\ path # None
    /\ pc = "paths"
    /\ path.burrow = target
    /\ path.moves = 12
    /\ Cardinality({c \in DOMAIN path.moved : path.moved[c] = 2}) = 6
    /\ Cardinality({c \in DOMAIN path.moved : path.moved[c] = 0}) = 2

\* C28: a piece that is not settled and whose cell is neither a room cell nor
\* a hallway stop (a cell above a room, a cell of the two lower rows of a
\* 4-deep grid) gets a child for every cell find_reachable_cells returns
C28_Unrestricted ==
    Expanded =>
        \A t \in Pieces(node.burrow) :
            (/\ <<t[1], t[2]>> \notin RoomCells \cup HallwayStops
             /\ ~SettledPiece(node.burrow, t[1], t[2], t[3]))
                => Destinations(t[1], t[2]) = Reachable(node.burrow, t[1], t[2])

\* a piece on the third room row of a 4-deep grid with children on a cell
\* above a room, on a cell of another type's room and on the row below it
C28_FromTheDeep ==
    /\ Expanded
    /\ \E t \in Pieces(node.burrow) :
          /\ t[2] = 4
          /\ t[3] = "Amber"
          /\ {<<5, 1>>, <<5, 2>>, <<t[1], 5>>, <<3, 3>>} \subseteq Destinations(t[1], t[2])

----------------------------------------------------------------------------
(* Panics                                                                   *)

\* the cell of a grid, for coordinates inside it
Inside(b, x, y) == y < Len(b) /\ x < Len(b[y + 1])

\* C29: no operation of part_a panics on a parsed grid: the source of every
\* generated move is a cell of the grid that holds the piece moved, so take and
\* its unwrap succeed, the destination is an Empty cell of the grid, so set
\* succeeds, and every index on the heap has its payload, so pop's unwrap succeeds
C29_NoPanic ==
    /\ pc # "panicked"
    /\ pc = "search" => \A e \in queue.heap : e[2] \in DOMAIN queue.values
    /\ Expanded =>
          \A i \in 1..Len(generated) :
              /\ Inside(node.burrow, generated[i].x, generated[i].y)
              /\ node.burrow[generated[i].y + 1][generated[i].x + 1] = generated[i].amphipod
              /\ generated[i].amphipod \in Amphipod
              /\ Inside(node.burrow, generated[i].nx, generated[i].ny)
              /\ node.burrow[generated[i].ny + 1][generated[i].nx + 1] = "Empty"
              /\ generated[i].burrow # Panic

\* the third expansion or a later one on a grid that is not of the target's
\* shape, with children generated and a frontier left to pop
C29_MovesAndPops ==
    /\ Expanded
    /\ Len(popped) >= 3
    /\ Len(generated) >= 2
    /\ queue.heap # {}
    /\ Len(node.burrow) # Len(target)

----------------------------------------------------------------------------
(* The queue's bookkeeping                                                  *)

\* the sequence numbers on the heap
HeapIndices == {e[2] : e \in queue.heap}

\* C30: after any pushes and pops the sequence numbers on the heap are the keys
\* of the payload table, one heap entry each, as many as pushes minus pops that
\* returned an entry, all below next_index; a push takes a number never given
\* before; a pop on an empty queue returns None and leaves the queue as it was
C30_Bookkeeping ==
    /\ [](pc = "queue" =>
            /\ HeapIndices = DOMAIN queue.values
            /\ Cardinality(queue.heap) = Cardinality(HeapIndices)
            /\ Cardinality(queue.heap) = Cardinality(DOMAIN pushed) - Len(popped)
            /\ \A k \in HeapIndices : k < queue.next_index
            /\ queue.next_index = Cardinality(DOMAIN pushed))
    /\ [][/\ (pc = "queue" /\ pushed' # pushed) =>
                /\ queue.next_index \notin DOMAIN pushed
                /\ queue.next_index \notin {popped[i].index : i \in 1..Len(popped)}
                /\ queue.next_index \in DOMAIN queue'.values
                /\ queue'.next_index = queue.next_index + 1
          /\ (pc = "queue" /\ pushed' = pushed /\ queue.heap = {}) =>
                /\ node' = None
                /\ queue' = queue
                /\ popped' = popped]_vars

\* a pop that returned an entry, then a pop on the empty queue, then two
\* pushes: the entries queued have the numbers after the one popped
C30_EmptyPopThenPushes ==
    /\ pc = "queue"
    /\ node = None
    /\ Len(popped) = 1
    /\ popped[1].index = 0
    /\ HeapIndices = {1, 2}

====
